---- MODULE Spec2Model ----
(***************************************************************************)
(* Model of jaracil/nagle (nagle.go): NagleWrapper, a write-coalescing     *)
(* wrapper over an io.ReadWriteCloser.  Caller goroutines call Write and   *)
(* Close (and Read, in SpecRead: it touches nothing of the wrapper); the   *)
(* goroutine started by NewNagleWrapper runs handleFlush; the              *)
(* runtime fires the time.Timer; the underlying stream answers every call  *)
(* with a result of its own choosing.                                      *)
(***************************************************************************)
EXTENDS Integers, Sequences, FiniteSets, Bags, TLC

\* ---------------------------------------------------------------- bounds
MaxCalls == 3        \* Write and Close calls made in a run, each by a goroutine of its own
MaxData == 1         \* longest data slice handed to one Write
MaxBufferSize == 2   \* largest bufferSize handed to NewNagleWrapper

VARIABLES
    bufferSize,  \* nw.bufferSize
    asyncChan,   \* whether the build's timer channel is the buffered (pre Go 1.23) one
    buffer,      \* nw.buffer: the unread bytes
    closed,      \* nw.closed
    mutex,       \* nw.mutex: "free", or the operation holding it
    timer,       \* nw.timer: [armed, gen, C]
    waiting,     \* the calls blocked on nw.mutex.Lock(): a bag of [op, data]
    cur,         \* the call holding the mutex inside a call of the stream: [pc, data]
    calls,       \* number of calls made so far
    lastRet,     \* what the call that returned in the step just taken (if any) returned
    bgpc,        \* where handleFlush stands
    bgFire,      \* the arming whose fire handleFlush received and is acting on
    rwcSent,     \* underlying stream: the bytes its Write accepted, in order
    rwcCloses,   \* underlying stream: how often its Close was invoked
    rwcCloseRet, \* underlying stream: what its Close returned
    lastFlush,   \* the latest flushLocked that called the stream: who ran it, its error
    accepted,    \* history: all bytes appended by Writes, in lock order
    rwcWriteRet, \* underlying stream: the error its latest Write returned
    rwcReadRet,  \* underlying stream: what its latest Read returned
    surfaced     \* the errors the wrapper has handed to a log, callback or error field

vars == <<bufferSize, asyncChan, buffer, closed, mutex, timer, waiting, cur,
          calls, lastRet, bgpc, bgFire, rwcSent, rwcCloses, rwcCloseRet,
          lastFlush, accepted, rwcWriteRet, rwcReadRet, surfaced>>

NoRet == [op |-> "none", n |-> 0, err |-> "nil", len |-> 0]
NoCall == [pc |-> "none", data |-> <<>>]
NoRead == [n |-> 0, err |-> "none"]

\* ------------------------------------------------------------- the timer
\* time.NewTimer(flushTimeout): armed, channel empty; arming number 0.
NewTimer == [armed |-> TRUE, gen |-> 0, C |-> <<>>]

\* What timer.Stop() returns: whether the call stopped the timer.
TimerStopResult(t) == IF asyncChan THEN t.armed ELSE t.armed \/ t.C # <<>>

\* The timer after timer.Stop().
TimerStop(t) == [t EXCEPT !.armed = FALSE, !.C = IF asyncChan THEN @ ELSE <<>>]

\* The timer after select { case <-timer.C: default: }.
TimerDrain(t) == [t EXCEPT !.C = <<>>]

\* The timer after timer.Reset(flushTimeout): a new arming.
TimerReset(t) == [armed |-> TRUE, gen |-> t.gen + 1,
                  C |-> IF asyncChan THEN t.C ELSE <<>>]

\* Mutant: Write stops the timer and does not arm it again.
RearmTimer_StopOnly(t) == TimerStop(t)

\* Write's re-arming of the timer.
RearmTimer(t) ==
    LET stopped == TimerStop(t)
        drained == IF TimerStopResult(t) THEN TimerDrain(stopped) ELSE stopped
    IN TimerReset(drained)

\* ------------------------------------------------------------ the buffer
\* Mutant: the new bytes go in front of the buffered ones.
BufferWrite_Prepend(buf, data) == data \o buf

\* nw.buffer.Write(data)
BufferWrite(buf, data) == buf \o data

\* Mutants: the threshold test off by one, either way.
AtThreshold_Strict(buf) == Len(buf) > bufferSize
AtThreshold_Early(buf) == Len(buf) >= bufferSize - 1

\* Write's threshold test.
AtThreshold(buf) == Len(buf) >= bufferSize

\* Mutant: Write does not look at the closed flag.
WriteRejects_Never(c) == FALSE

\* Write's test of the closed flag.
WriteRejects(c) == c

\* Mutant: handleFlush never flushes.
BgShouldFlush_Never(buf) == FALSE

\* handleFlush's test of the buffer.
BgShouldFlush(buf) == Len(buf) > 0

\* Mutant: the buffer is reset whatever the stream accepted.
Remaining_Reset(buf, m) == <<>>

\* bytes.Buffer.WriteTo after the stream accepted m bytes: what stays buffered.
Remaining(buf, m) == SubSeq(buf, m + 1, Len(buf))

\* Mutant: flushLocked drops the error.
FlushErr_Swallow(n, m, e) == "nil"

\* The error flushLocked returns when the stream accepted m of n bytes with error e.
FlushErr(n, m, e) ==
    IF e # "nil" THEN e ELSE IF m # n THEN "ErrShortWrite" ELSE "nil"

\* Mutant: Close does not look at the closed flag.
CloseRejects_Never(c) == FALSE

\* Close's test of the closed flag.
CloseRejects(c) == c

\* Mutant: Close goes on whatever the final flush returned.
CloseAborts_Never(err) == FALSE

\* Close's test of the final flush's error.
CloseAborts(err) == err # "nil"

\* flushLocked's call of the stream's Write, which accepts m bytes and returns e.
DoFlush(by, m, e) ==
    /\ m \in 0..Len(buffer)
    /\ e \in {"nil", "rwcWriteErr"}
    /\ rwcSent' = rwcSent \o SubSeq(buffer, 1, m)
    /\ buffer' = Remaining(buffer, m)
    /\ lastFlush' = [by |-> by, err |-> FlushErr(Len(buffer), m, e)]
    /\ rwcWriteRet' = e

\* ------------------------------------------------------------------ Init
\* NewNagleWrapper: any bufferSize is taken as it is; values below 0 act as 0.
Init ==
    /\ bufferSize \in 0..MaxBufferSize
    /\ asyncChan \in BOOLEAN
    /\ buffer = <<>>
    /\ closed = FALSE
    /\ mutex = "free"
    /\ timer = NewTimer
    /\ waiting = EmptyBag
    /\ cur = NoCall
    /\ calls = 0
    /\ lastRet = NoRet
    /\ bgpc = "wait"
    /\ bgFire = -1
    /\ rwcSent = <<>>
    /\ rwcCloses = 0
    /\ rwcCloseRet = "none"
    /\ lastFlush = [by |-> "none", err |-> "nil"]
    /\ accepted = <<>>
    /\ rwcWriteRet = "none"
    /\ rwcReadRet = NoRead
    /\ surfaced = <<>>

\* Frames.
rwcVars == <<rwcSent, rwcCloses, rwcCloseRet, lastFlush, rwcWriteRet, rwcReadRet>>
bgVars == <<bgpc, bgFire>>
cfgVars == <<bufferSize, asyncChan>>
outVars == <<surfaced>>
callVars == <<waiting, cur, calls>>

\* Mutant: Lock does not wait for the holder.
CanLock_Always(m) == TRUE

\* nw.mutex.Lock() returns: nobody holds the mutex.
CanLock(m) == m = "free"

\* Mutant: a call returns without the deferred Unlock.
Return_NoUnlock(op, data, n, err) ==
    /\ lastRet' = [op |-> op, n |-> n, err |-> err, len |-> Len(data)]
    /\ cur' = NoCall
    /\ mutex' = op

\* A call returns (n, err) and releases the mutex (the deferred Unlock).
Return(op, data, n, err) ==
    /\ lastRet' = [op |-> op, n |-> n, err |-> err, len |-> Len(data)]
    /\ cur' = NoCall
    /\ mutex' = "free"

\* The call goes on holding the mutex, inside a call of the stream.
Hold(op, at, data) ==
    /\ cur' = [pc |-> at, data |-> data]
    /\ mutex' = op
    /\ lastRet' = NoRet

\* No step but a return leaves a returned value.
NoReturn == lastRet' = NoRet

\* The calls blocked on the mutex, with w taken out.
Woken(w) == waiting (-) SetToBag({w})

\* ----------------------------------------------------------------- Write
\* The data of a Write call: len bytes, whose values the wrapper never looks at.
Data(len) == [i \in 1..len |-> 0]

\* The same bytes, each marked with its place among all bytes Writes have appended.
Marked(data) == [i \in 1..Len(data) |-> Len(accepted) + i]

\* A goroutine calls Write(data) and blocks on nw.mutex.Lock().
CallWrite(len) ==
    /\ calls < MaxCalls
    /\ len \in 0..MaxData
    /\ waiting' = waiting (+) SetToBag({[op |-> "Write", data |-> Data(len)]})
    /\ calls' = calls + 1
    /\ NoReturn
    /\ UNCHANGED <<cfgVars, outVars, buffer, closed, mutex, timer, cur, bgVars, rwcVars,
                   accepted>>

\* Write takes the mutex and runs up to its return or its call of the stream.
WriteLocked(w) ==
    /\ BagIn(w, waiting)
    /\ w.op = "Write"
    /\ CanLock(mutex)
    /\ waiting' = Woken(w)
    /\ IF WriteRejects(closed)
       THEN /\ Return("Write", w.data, 0, "ErrClosedPipe")
            /\ UNCHANGED <<buffer, accepted, timer>>
       ELSE LET buf == BufferWrite(buffer, Marked(w.data)) IN
            /\ buffer' = buf
            /\ accepted' = accepted \o Marked(w.data)
            /\ IF AtThreshold(buf)
               THEN /\ timer' = timer
                    /\ IF Len(buf) = 0
                       THEN Return("Write", w.data, 0, "nil")
                       ELSE Hold("Write", "WriteFlush", w.data)
               ELSE /\ timer' = RearmTimer(timer)
                    /\ Return("Write", w.data, Len(w.data), "nil")
    /\ UNCHANGED <<cfgVars, outVars, closed, calls, bgVars, rwcVars>>

\* The stream's Write returns (m, e) to Write's flushLocked; Write returns that.
WriteFlush(m, e) ==
    /\ cur.pc = "WriteFlush"
    /\ DoFlush("Write", m, e)
    /\ Return("Write", cur.data, m, FlushErr(Len(buffer), m, e))
    /\ UNCHANGED <<cfgVars, outVars, closed, timer, waiting, calls, bgVars,
                   rwcCloses, rwcCloseRet, rwcReadRet, accepted>>

\* ----------------------------------------------------------------- Close
\* A goroutine calls Close() and blocks on nw.mutex.Lock().
CallClose ==
    /\ calls < MaxCalls
    /\ waiting' = waiting (+) SetToBag({[op |-> "Close", data |-> <<>>]})
    /\ calls' = calls + 1
    /\ NoReturn
    /\ UNCHANGED <<cfgVars, outVars, buffer, closed, mutex, timer, cur, bgVars, rwcVars,
                   accepted>>

\* Close takes the mutex and runs up to its return or its next call of the stream.
CloseLocked(w) ==
    /\ BagIn(w, waiting)
    /\ w.op = "Close"
    /\ CanLock(mutex)
    /\ waiting' = Woken(w)
    /\ IF CloseRejects(closed)
       THEN /\ Return("Close", <<>>, 0, "ErrClosedPipe")
            /\ UNCHANGED <<closed, rwcCloses>>
       ELSE IF Len(buffer) = 0
            THEN /\ closed' = TRUE
                 /\ rwcCloses' = rwcCloses + 1
                 /\ Hold("Close", "CloseRwc", <<>>)
            ELSE /\ Hold("Close", "CloseFlush", <<>>)
                 /\ UNCHANGED <<closed, rwcCloses>>
    /\ UNCHANGED <<cfgVars, outVars, buffer, timer, calls, bgVars, rwcSent,
                   rwcCloseRet, lastFlush, rwcWriteRet, rwcReadRet, accepted>>

\* The stream's Write returns (m, e) to Close's flushLocked.
CloseFlush(m, e) ==
    /\ cur.pc = "CloseFlush"
    /\ DoFlush("Close", m, e)
    /\ IF CloseAborts(FlushErr(Len(buffer), m, e))
       THEN /\ Return("Close", <<>>, 0, FlushErr(Len(buffer), m, e))
            /\ UNCHANGED <<closed, rwcCloses>>
       ELSE /\ closed' = TRUE
            /\ rwcCloses' = rwcCloses + 1
            /\ Hold("Close", "CloseRwc", <<>>)
    /\ UNCHANGED <<cfgVars, outVars, timer, waiting, calls, bgVars, rwcCloseRet,
                   rwcReadRet, accepted>>

\* The stream's Close returns e; Close returns it.
CloseRwc(e) ==
    /\ cur.pc = "CloseRwc"
    /\ e \in {"nil", "rwcCloseErr"}
    /\ rwcCloseRet' = e
    /\ Return("Close", <<>>, 0, e)
    /\ UNCHANGED <<cfgVars, outVars, buffer, closed, timer, waiting, calls, bgVars,
                   rwcSent, rwcCloses, lastFlush, rwcWriteRet, rwcReadRet, accepted>>

\* ------------------------------------------------------------- the timer
\* The runtime fires the armed timer: a non-blocking send on timer.C.
TimerFire ==
    /\ timer.armed
    /\ timer' = [timer EXCEPT !.armed = FALSE,
                              !.C = IF @ = <<>> THEN <<timer.gen>> ELSE @]
    /\ NoReturn
    /\ UNCHANGED <<cfgVars, outVars, buffer, closed, mutex, callVars, bgVars, rwcVars,
                   accepted>>

\* ----------------------------------------------------------- handleFlush
\* <-nw.timer.C, then handleFlush blocks on nw.mutex.Lock().
BgReceive ==
    /\ bgpc = "wait"
    /\ timer.C # <<>>
    /\ bgFire' = Head(timer.C)
    /\ timer' = [timer EXCEPT !.C = <<>>]
    /\ bgpc' = "lock"
    /\ NoReturn
    /\ UNCHANGED <<cfgVars, outVars, buffer, closed, mutex, callVars, rwcVars,
                   accepted>>

\* handleFlush takes the mutex and runs up to its unlock or its call of the stream.
BgLocked ==
    /\ bgpc = "lock"
    /\ CanLock(mutex)
    /\ IF closed
       THEN bgpc' = "done" /\ mutex' = "free" /\ bgFire' = -1
       ELSE IF BgShouldFlush(buffer)
            THEN bgpc' = "flush" /\ mutex' = "handleFlush" /\ bgFire' = bgFire
            ELSE bgpc' = "wait" /\ mutex' = "free" /\ bgFire' = -1
    /\ NoReturn
    /\ UNCHANGED <<cfgVars, outVars, buffer, closed, timer, callVars, rwcVars,
                   accepted>>

\* The stream's Write returns (m, e) to handleFlush's flushLocked; the result is dropped.
BgFlush(m, e) ==
    /\ bgpc = "flush"
    /\ DoFlush("handleFlush", m, e)
    /\ bgpc' = "wait"
    /\ bgFire' = -1
    /\ mutex' = "free"
    /\ NoReturn
    /\ UNCHANGED <<cfgVars, outVars, closed, timer, callVars, rwcCloses,
                   rwcCloseRet, rwcReadRet, accepted>>

\* ------------------------------------------------------------------ Next
\* What the stream's Write may answer: the number of bytes accepted and the error.
Outcomes == (0..(MaxCalls * MaxData)) \X {"nil", "rwcWriteErr"}
CloseOutcomes == {"nil", "rwcCloseErr"}

Next ==
    \/ \E len \in 0..MaxData : CallWrite(len)
    \/ \E w \in BagToSet(waiting) : WriteLocked(w)
    \/ \E o \in Outcomes : WriteFlush(o[1], o[2])
    \/ CallClose
    \/ \E w \in BagToSet(waiting) : CloseLocked(w)
    \/ \E o \in Outcomes : CloseFlush(o[1], o[2])
    \/ \E e \in CloseOutcomes : CloseRwc(e)
    \/ TimerFire
    \/ BgReceive
    \/ BgLocked
    \/ \E o \in Outcomes : BgFlush(o[1], o[2])

Spec == Init /\ [][Next]_vars

\* The same program over a stream whose Write always accepts every byte, with
\* the timer firing after each arming, handleFlush scheduled and every call of
\* the stream returning.
WriteFlushOK == WriteFlush(Len(buffer), "nil")
CloseFlushOK == CloseFlush(Len(buffer), "nil")
BgFlushOK == BgFlush(Len(buffer), "nil")

NextOK ==
    \/ \E len \in 0..MaxData : CallWrite(len)
    \/ \E w \in BagToSet(waiting) : WriteLocked(w)
    \/ WriteFlushOK
    \/ CallClose
    \/ \E w \in BagToSet(waiting) : CloseLocked(w)
    \/ CloseFlushOK
    \/ \E e \in CloseOutcomes : CloseRwc(e)
    \/ TimerFire
    \/ BgReceive
    \/ BgLocked
    \/ BgFlushOK

SpecLive ==
    /\ Init
    /\ [][NextOK]_vars
    /\ WF_vars(TimerFire)
    /\ WF_vars(BgReceive)
    /\ WF_vars(BgLocked)
    /\ WF_vars(BgFlushOK)
    /\ WF_vars(WriteFlushOK)
    /\ WF_vars(CloseFlushOK)
    /\ WF_vars(\E e \in CloseOutcomes : CloseRwc(e))

\* A goroutine that can go on does: a Lock on the free mutex returns, or the
\* call of the stream made under the mutex returns, whatever it returns.
LockedStep ==
    \/ \E w \in BagToSet(waiting) : WriteLocked(w)
    \/ \E w \in BagToSet(waiting) : CloseLocked(w)
    \/ BgLocked
    \/ \E o \in Outcomes : WriteFlush(o[1], o[2])
    \/ \E o \in Outcomes : CloseFlush(o[1], o[2])
    \/ \E o \in Outcomes : BgFlush(o[1], o[2])
    \/ \E e \in CloseOutcomes : CloseRwc(e)

\* The program with the goroutines scheduled and the stream's calls returning.
SpecFair == Init /\ [][Next]_vars /\ WF_vars(LockedStep)

\* ------------------------------------------------------------------ Read
\* Mutant: Read refuses once the wrapper is closed.
ReadResult_Guarded(c, r) == IF c THEN [n |-> 0, err |-> "ErrClosedPipe"] ELSE r

\* What Read returns when the stream's Read returned r, with nw.closed = c.
ReadResult(c, r) == r

\* What the stream's Read may answer: a closed stream refuses, an open one
\* returns a byte or the end of its data.
RwcReadOutcomes ==
    IF rwcCloseRet = "nil"
    THEN {[n |-> 0, err |-> "ErrClosedPipe"]}
    ELSE {[n |-> 1, err |-> "nil"], [n |-> 0, err |-> "EOF"]}

\* A goroutine calls Read(p) with len(p) = 1: the stream's Read returns r and
\* Read returns that.  Read takes no lock.
Read(r) ==
    /\ calls < MaxCalls
    /\ r \in RwcReadOutcomes
    /\ calls' = calls + 1
    /\ rwcReadRet' = r
    /\ lastRet' = [op |-> "Read", n |-> ReadResult(closed, r).n,
                   err |-> ReadResult(closed, r).err, len |-> 1]
    /\ UNCHANGED <<cfgVars, outVars, buffer, closed, mutex, timer, waiting, cur,
                   bgVars, rwcSent, rwcCloses, rwcCloseRet, lastFlush,
                   rwcWriteRet, accepted>>

\* The program with Read calls among the Write and Close calls.
NextRead ==
    \/ Next
    \/ \E r \in RwcReadOutcomes : Read(r)

SpecRead == Init /\ [][NextRead]_vars

\* ================================================================ claims
\* The bytes Writes have appended that the stream has not accepted.
Unsent == SubSeq(accepted, Len(rwcSent) + 1, Len(accepted))

\* The step just taken returned from the Write on which the cumulative size of
\* the accepted Writes first reached bufferSize.
FirstReach ==
    /\ lastRet.op = "Write"
    /\ lastRet.err # "ErrClosedPipe"
    /\ Len(accepted) - lastRet.len < bufferSize
    /\ bufferSize <= Len(accepted)

\* C1 as stated: when the Write on which the cumulative size first reaches
\* bufferSize returns, the stream has received exactly all bytes written so far,
\* the buffer is empty, and the stream had received nothing before that Write.
C1_Orig ==
    [][FirstReach' => (rwcSent = <<>> /\ rwcSent' = accepted' /\ buffer' = <<>>)]_vars

\* C1 amended: while the cumulative size of the Writes is below bufferSize, bytes
\* reach the stream only through a flush of handleFlush or of Close, never of a
\* Write; and when the Write on which the cumulative size first reaches
\* bufferSize returns a nil error and the stream had received nothing before it,
\* the stream has received exactly all bytes written so far and the buffer is
\* empty.
C1_FirstReachFlush ==
    [][ /\ (Len(accepted) < bufferSize /\ rwcSent' # rwcSent)
            => (bgpc = "flush" \/ cur.pc = "CloseFlush")
        /\ (FirstReach' /\ lastRet'.err = "nil" /\ rwcSent = <<>>)
            => (rwcSent' = accepted' /\ buffer' = <<>>) ]_vars

\* A second or later Write reached the threshold and its one flush delivered
\* everything written so far.
C1_Witness ==
    /\ FirstReach
    /\ lastRet.err = "nil"
    /\ lastRet.len < Len(accepted)
    /\ lastRet.n = Len(accepted)
    /\ rwcSent = accepted
    /\ buffer = <<>>

\* C2: a Write that returns a nil error returns n = len(data).
C2_WriteReturnsLen ==
    (lastRet.op = "Write" /\ lastRet.err = "nil") => lastRet.n = lastRet.len

\* C3: while the buffered bytes are below bufferSize, handleFlush flushes only on
\* the fire of the latest arming of the timer, never on the fire of an earlier one.
C3_NoStaleFlush ==
    (bgpc = "flush" /\ Len(buffer) < bufferSize) => bgFire = timer.gen

\* C4: every byte a Write has appended is eventually accepted by the stream
\* (stream Writes succeed in full, the timer fires, handleFlush is scheduled).
C4_EventuallyWritten ==
    \A k \in 1..(MaxCalls * MaxData) : (Len(accepted) >= k) ~> (Len(rwcSent) >= k)

\* The timer's flush delivered the buffered bytes with no call in progress.
C4_Witness ==
    /\ lastFlush = [by |-> "handleFlush", err |-> "nil"]
    /\ rwcSent = accepted
    /\ accepted # <<>>
    /\ Len(accepted) < bufferSize
    /\ bgpc = "wait"
    /\ waiting = EmptyBag
    /\ cur = NoCall
    /\ ~closed

\* C5: the stream's Close is invoked only once every buffered byte has been
\* accepted by the stream, and Close returns nil only if its final flush and the
\* stream's Close returned no error.
C5_CloseFlushesFirst ==
    /\ [](rwcCloses > 0 => (buffer = <<>> /\ rwcSent = accepted))
    /\ [][(cur.pc = "CloseFlush" /\ cur'.pc = "CloseRwc") => lastFlush'.err = "nil"]_vars
    /\ [][(lastRet'.op = "Close" /\ lastRet'.err = "nil")
            => (cur.pc = "CloseRwc" /\ rwcCloseRet' = "nil")]_vars

\* A Close that found bytes buffered flushed them, closed the stream and returned nil.
C5_Witness ==
    /\ lastRet.op = "Close"
    /\ lastRet.err = "nil"
    /\ lastFlush = [by |-> "Close", err |-> "nil"]
    /\ rwcSent = accepted
    /\ accepted # <<>>

\* C6: closed never goes back to false, and a Write or Close that takes the
\* mutex while closed is true returns the closed error (Write with n = 0) and
\* leaves the buffer, the timer and the stream untouched.
C6_ClosedIsFinal ==
    [][ /\ closed => closed'
        /\ (closed /\ waiting' # waiting /\ calls' = calls)
            => /\ lastRet'.op \in {"Write", "Close"}
               /\ lastRet'.err = "ErrClosedPipe"
               /\ lastRet'.n = 0
               /\ mutex' = "free"
               /\ cur' = NoCall
               /\ UNCHANGED <<buffer, timer, rwcVars, accepted>> ]_vars

\* A Write with data was refused after the wrapper was closed.
C6_Witness ==
    /\ closed
    /\ lastRet.op = "Write"
    /\ lastRet.err = "ErrClosedPipe"
    /\ lastRet.len > 0

\* C7: a Close whose final flush fails returns the flush's error, leaves closed
\* false, does not invoke the stream's Close, releases the mutex and keeps the
\* bytes the stream did not accept in the buffer, so that a later Close retries.
C7_FailedCloseStaysOpen ==
    [][ (cur.pc = "CloseFlush" /\ cur' # cur /\ lastFlush'.err # "nil")
        => /\ lastRet' = [op |-> "Close", n |-> 0, err |-> lastFlush'.err, len |-> 0]
           /\ ~closed'
           /\ rwcCloses' = 0
           /\ mutex' = "free"
           /\ buffer' = Unsent' ]_vars

\* After a Close whose flush failed, another Close is at its final flush.
C7_Witness ==
    /\ cur.pc = "CloseFlush"
    /\ lastFlush.by = "Close"
    /\ lastFlush.err # "nil"

\* C8: what the stream has received is a prefix of the bytes the Writes
\* appended, in the order the Writes took the mutex.
C8_SentIsPrefix ==
    /\ Len(rwcSent) <= Len(accepted)
    /\ rwcSent = SubSeq(accepted, 1, Len(rwcSent))

\* A Write is flushing while another Write is blocked on the mutex, after
\* earlier bytes were sent.
C8_Witness ==
    /\ cur.pc = "WriteFlush"
    /\ \E w \in BagToSet(waiting) : w.op = "Write" /\ Len(w.data) > 0
    /\ rwcSent # <<>>

\* A step in which a call of the stream's Write by flushLocked returns.
FlushReturns ==
    \/ cur.pc \in {"WriteFlush", "CloseFlush"} /\ cur' # cur
    \/ bgpc = "flush" /\ bgpc' # "flush"

\* C9: a flush in which the stream accepts m of the n buffered bytes moves the
\* first m bytes to the stream and keeps the other n - m in order; so the bytes
\* the stream received followed by the buffer are always the bytes appended.
C9_PartialFlushKeepsRest ==
    /\ [](rwcSent \o buffer = accepted)
    /\ [][FlushReturns =>
            \E m \in 0..Len(buffer) :
                /\ rwcSent' = rwcSent \o SubSeq(buffer, 1, m)
                /\ buffer' = SubSeq(buffer, m + 1, Len(buffer))
                /\ lastFlush'.err = "nil" => m = Len(buffer)]_vars

\* A flush was partial: the stream holds some bytes, the buffer the rest.
C9_Witness ==
    /\ lastFlush.err # "nil"
    /\ rwcSent # <<>>
    /\ buffer # <<>>
    /\ mutex = "free"

\* C10 as stated (bufferSize > 0, as the wrapper's data model requires): while
\* no operation holds the mutex, len(buffer) < bufferSize.
C10_Orig ==
    (mutex = "free" /\ bufferSize > 0) => Len(buffer) < bufferSize

\* C10 amended: while no operation holds the mutex, len(buffer) < bufferSize,
\* unless the stream's Write failed or fell short in the latest flush.
C10_BelowThreshold ==
    (mutex = "free" /\ bufferSize > 0 /\ lastFlush.err = "nil")
        => Len(buffer) < bufferSize

\* A Write reached the threshold, flushed in full and returned.
C10_Witness ==
    /\ lastRet.op = "Write"
    /\ lastRet.n > 0
    /\ lastFlush = [by |-> "Write", err |-> "nil"]
    /\ mutex = "free"
    /\ bufferSize > 0
    /\ buffer = <<>>

\* C11: once the stream's Close has returned nil to Close, handleFlush
\* eventually returns (the timer fires when armed, handleFlush is scheduled).
C11_BgTerminates ==
    (rwcCloseRet = "nil") ~> (bgpc = "done")

\* C12: when the stream's Write fails inside a flush of handleFlush, the
\* error is handed to an out-of-band channel (a log, a callback, an error field).
C12_BgErrorSurfaced ==
    [][(bgpc = "flush" /\ bgpc' # "flush" /\ lastFlush'.err # "nil")
        => (/\ Len(surfaced') > Len(surfaced)
            /\ surfaced'[Len(surfaced')] = lastFlush'.err)]_vars

\* A step in which the stream's Write returns to the flush of a Write.
WriteFlushReturns == cur.pc = "WriteFlush" /\ cur' # cur

\* C13 as stated: a Write that reaches the threshold returns the number of bytes
\* the stream accepted in its flush and the error the stream's Write returned.
C13_Orig ==
    [][WriteFlushReturns
        => (/\ lastRet'.op = "Write"
            /\ lastRet'.n = Len(rwcSent') - Len(rwcSent)
            /\ lastRet'.err = rwcWriteRet')]_vars

\* C13 amended: such a Write returns the number of bytes the stream accepted in
\* its flush; its error is the stream's error when that is not nil, and
\* io.ErrShortWrite when the stream returned nil but accepted fewer bytes than
\* were buffered, and nil otherwise.  A Write that reaches the threshold with
\* nothing buffered calls nothing and returns (0, nil).
C13_ReturnsFlushResult ==
    /\ [][WriteFlushReturns
            => (/\ lastRet'.op = "Write"
                /\ lastRet'.n = Len(rwcSent') - Len(rwcSent)
                /\ (rwcWriteRet' # "nil" => lastRet'.err = rwcWriteRet')
                /\ ((rwcWriteRet' = "nil" /\ lastRet'.n < Len(buffer))
                        => lastRet'.err = "ErrShortWrite")
                /\ ((rwcWriteRet' = "nil" /\ lastRet'.n = Len(buffer))
                        => lastRet'.err = "nil"))]_vars
    /\ [][(mutex = "free" /\ lastRet'.op = "Write" /\ lastRet'.err = "nil"
            /\ Len(buffer') >= bufferSize)
            => (lastRet'.n = 0 /\ buffer' = <<>> /\ UNCHANGED rwcVars)]_vars

\* A threshold Write's flush was cut short by a stream that returned no error.
C13_Witness ==
    /\ lastRet.op = "Write"
    /\ lastRet.err = "ErrShortWrite"
    /\ lastRet.n > 0
    /\ rwcWriteRet = "nil"
    /\ buffer # <<>>

\* A step in which a Write returns without having reached the threshold.
BufferedWriteReturns ==
    /\ mutex = "free"
    /\ lastRet'.op = "Write"
    /\ lastRet'.err = "nil"
    /\ Len(buffer') < bufferSize

\* C14: a Write that returns without flushing leaves the timer armed with one
\* new arming, and the arming it replaced never fires: every fire is a fire of
\* the arming that is current when it happens.
C14_RearmsOnce ==
    /\ [][BufferedWriteReturns
            => (/\ timer'.armed
                /\ timer'.gen = timer.gen + 1
                /\ (timer'.C = <<>> \/ timer'.C = timer.C))]_vars
    /\ [][(timer'.C # timer.C /\ timer'.C # <<>>)
            => (/\ timer.armed
                /\ ~timer'.armed
                /\ timer'.gen = timer.gen
                /\ timer'.C = <<timer.gen>>)]_vars

\* A second buffered Write replaced the unfired arming of the first.
C14_Witness ==
    /\ asyncChan
    /\ lastRet.op = "Write"
    /\ lastRet.err = "nil"
    /\ timer = [armed |-> TRUE, gen |-> 2, C |-> <<>>]
    /\ lastFlush.by = "none"
    /\ bgpc = "wait"
    /\ buffer # <<>>

\* The number of goroutines between nw.mutex.Lock() and the Unlock.
Holders ==
    (IF cur # NoCall THEN 1 ELSE 0) + (IF bgpc = "flush" THEN 1 ELSE 0)

\* C15: Write, Close and handleFlush's flush exclude one another: at most one
\* of them is between Lock and Unlock, the mutex names that one, and so at most
\* one call of the stream's Write or Close is in progress.
C15_MutualExclusion ==
    /\ Holders <= 1
    /\ (mutex = "free") <=> (Holders = 0)
    /\ (mutex = "handleFlush") <=> (bgpc = "flush")
    /\ (mutex = "Write") <=> (cur.pc = "WriteFlush")
    /\ (mutex = "Close") <=> (cur.pc \in {"CloseFlush", "CloseRwc"})

\* Close is inside its flush while handleFlush and a Write wait for the mutex.
C15_Witness ==
    /\ cur.pc = "CloseFlush"
    /\ bgpc = "lock"
    /\ \E w \in BagToSet(waiting) : w.op = "Write"

\* C16: Read returns exactly what the stream's Read returned, changes nothing of
\* the wrapper (buffer, closed, timer, mutex, the calls in progress) and nothing
\* of the stream's write side, and fails with the closed error only when the
\* stream itself is closed.
C16_ReadPassThrough ==
    [][lastRet'.op = "Read"
        => (/\ lastRet'.n = rwcReadRet'.n
            /\ lastRet'.err = rwcReadRet'.err
            /\ (lastRet'.err = "ErrClosedPipe" => rwcCloseRet = "nil")
            /\ UNCHANGED <<buffer, closed, timer, mutex, waiting, cur, bgVars,
                           rwcSent, rwcCloses, rwcCloseRet, accepted>>)]_vars

\* A Read returned a byte while Close held the mutex with closed already true.
C16_Witness ==
    /\ lastRet = [op |-> "Read", n |-> 1, err |-> "nil", len |-> 1]
    /\ closed
    /\ mutex = "Close"
    /\ cur.pc = "CloseRwc"

\* C17: while closed is true the buffer is empty and no flush is inside a call
\* of the stream's Write, and no step taken with closed true is a return of the
\* stream's Write.
C17_ClosedMeansDrained ==
    /\ [](closed => (/\ buffer = <<>>
                     /\ cur.pc \notin {"WriteFlush", "CloseFlush"}
                     /\ bgpc # "flush"))
    /\ [][closed => UNCHANGED <<rwcSent, lastFlush, rwcWriteRet>>]_vars

\* After Close, with data sent earlier, handleFlush has received a fire and is
\* about to test closed while a Write waits for the mutex.
C17_Witness ==
    /\ closed
    /\ rwcCloseRet = "nil"
    /\ accepted # <<>>
    /\ bgpc = "lock"
    /\ \E w \in BagToSet(waiting) : w.op = "Write" /\ Len(w.data) > 0

\* C18: the stream's Close is invoked at most once, whatever it returned and
\* however many Close calls are made.
C18_CloseOnce ==
    rwcCloses <= 1

\* The stream's Close failed, and a later Close was refused without a retry.
C18_Witness ==
    /\ rwcCloses = 1
    /\ rwcCloseRet = "rwcCloseErr"
    /\ lastRet.op = "Close"
    /\ lastRet.err = "ErrClosedPipe"

\* C19: while the wrapper is open, nobody holds the mutex and bytes are
\* buffered, a flush is on its way: the timer is armed, or it has fired and
\* handleFlush has not yet acted on the fire.
C19_FlushOutstanding ==
    (~closed /\ mutex = "free" /\ buffer # <<>>)
        => (timer.armed \/ timer.C # <<>> \/ bgpc = "lock")

\* C20: handleFlush holds the mutex only inside its flush, never while it
\* waits for the timer; the mutex is free again and again; and again and again
\* every Write and Close call made so far has returned (goroutines are
\* scheduled, calls of the stream return).
C20_CallsReturn ==
    /\ [](bgpc \in {"wait", "lock", "done"} => mutex # "handleFlush")
    /\ []<>(mutex = "free")
    /\ []<>(waiting = EmptyBag /\ cur = NoCall)

\* Every call has returned, one flush having failed, and handleFlush has left.
C20_Witness ==
    /\ calls = MaxCalls
    /\ waiting = EmptyBag
    /\ cur = NoCall
    /\ mutex = "free"
    /\ rwcWriteRet = "rwcWriteErr"
    /\ closed
    /\ bgpc = "done"

====
